---------------------------- MODULE Spec2Model ----------------------------
(***************************************************************************)
(* scripts/estimate_tokens.py: load /tmp/devflow_tree.json, estimate the   *)
(* token count of the corpus as int(total_size * 0.3), print a report and  *)
(* one of four recommendations.                                            *)
(*                                                                         *)
(* The script computes with Python's unbounded int and with IEEE-754       *)
(* binary64 float.  Both are modelled exactly: an unbounded natural is a   *)
(* little-endian sequence of limbs in base 2^15 (no leading zero limb, so  *)
(* equal numbers are equal sequences), a Python int is a sign and a        *)
(* magnitude, and a finite float is sign * m * 2^e with m = 0 or           *)
(* 2^52 <= m < 2^53.  Every float operation is the exact result rounded to *)
(* nearest, ties to even, as the hardware and CPython produce it.          *)
(***************************************************************************)
EXTENDS Integers, Sequences, FiniteSets

(***************************************************************************)
(* Unbounded naturals (the magnitude of a Python int)                      *)
(***************************************************************************)
LimbBits == 15
Base == 2 ^ LimbBits

Limb(a, i) == IF i <= Len(a) THEN a[i] ELSE 0

RECURSIVE NatTrim(_)
NatTrim(a) ==
  IF Len(a) = 0 \/ a[Len(a)] # 0 THEN a ELSE NatTrim(SubSeq(a, 1, Len(a) - 1))

RECURSIVE NatOfInt(_)
NatOfInt(n) == IF n = 0 THEN <<>> ELSE <<n % Base>> \o NatOfInt(n \div Base)

NatIsZero(a) == a = <<>>

RECURSIVE NatAddC(_, _, _, _)
NatAddC(a, b, i, c) ==
  IF i > Len(a) /\ i > Len(b)
    THEN (IF c = 0 THEN <<>> ELSE <<c>>)
    ELSE LET s == Limb(a, i) + Limb(b, i) + c
         IN  <<s % Base>> \o NatAddC(a, b, i + 1, s \div Base)

NatAdd(a, b) == NatAddC(a, b, 1, 0)

RECURSIVE NatSubB(_, _, _, _)
NatSubB(a, b, i, w) ==
  IF i > Len(a)
    THEN <<>>
    ELSE LET d == Limb(a, i) - Limb(b, i) - w
         IN  IF d < 0 THEN <<d + Base>> \o NatSubB(a, b, i + 1, 1)
                      ELSE <<d>> \o NatSubB(a, b, i + 1, 0)

\* a - b for a >= b
NatSub(a, b) == NatTrim(NatSubB(a, b, 1, 0))

RECURSIVE NatCmpAt(_, _, _)
NatCmpAt(a, b, i) ==
  IF i = 0 THEN 0
  ELSE IF a[i] < b[i] THEN -1
  ELSE IF a[i] > b[i] THEN 1
  ELSE NatCmpAt(a, b, i - 1)

\* -1, 0 or 1 as a < b, a = b, a > b
NatCmp(a, b) ==
  IF Len(a) < Len(b) THEN -1
  ELSE IF Len(a) > Len(b) THEN 1
  ELSE NatCmpAt(a, b, Len(a))

RECURSIVE NatMulSmallC(_, _, _, _)
NatMulSmallC(a, k, i, c) ==
  IF i > Len(a)
    THEN (IF c = 0 THEN <<>> ELSE <<c>>)
    ELSE LET p == a[i] * k + c
         IN  <<p % Base>> \o NatMulSmallC(a, k, i + 1, p \div Base)

\* a * k for 0 <= k < Base
NatMulSmall(a, k) == IF k = 0 THEN <<>> ELSE NatMulSmallC(a, k, 1, 0)

NatShlLimbs(a, n) == IF a = <<>> THEN a ELSE [i \in 1..n |-> 0] \o a

RECURSIVE NatMulFrom(_, _, _)
\* a * (b with its limbs below i dropped), shifted to b's scale
NatMulFrom(a, b, i) ==
  IF i > Len(b) THEN <<>>
  ELSE LET rest == NatMulFrom(a, b, i + 1)
           term == NatShlLimbs(NatMulSmall(a, b[i]), i - 1)
       IN  IF rest = <<>> THEN term ELSE NatAdd(term, rest)

NatMul(a, b) == NatMulFrom(a, b, 1)

RECURSIVE NatDivSmallAt(_, _, _, _)
NatDivSmallAt(a, d, i, r) ==
  IF i = 0 THEN [q |-> <<>>, r |-> r]
  ELSE LET x    == r * Base + a[i]
           rest == NatDivSmallAt(a, d, i - 1, x % d)
       IN  [q |-> rest.q \o <<x \div d>>, r |-> rest.r]

\* quotient and remainder of a by d, for 0 < d <= Base
NatDivSmall(a, d) ==
  LET x == NatDivSmallAt(a, d, Len(a), 0) IN [q |-> NatTrim(x.q), r |-> x.r]

NatShl(a, n) == NatShlLimbs(NatMulSmall(a, 2 ^ (n % LimbBits)), n \div LimbBits)

NatShr(a, n) ==
  IF n \div LimbBits >= Len(a) THEN <<>>
  ELSE NatDivSmall(SubSeq(a, n \div LimbBits + 1, Len(a)), 2 ^ (n % LimbBits)).q

RECURSIVE SmallBitLen(_)
SmallBitLen(x) == IF x = 0 THEN 0 ELSE 1 + SmallBitLen(x \div 2)

NatBitLen(a) ==
  IF a = <<>> THEN 0 ELSE LimbBits * (Len(a) - 1) + SmallBitLen(a[Len(a)])

\* bit i of a, bit 0 the lowest
NatBit(a, i) == (Limb(a, i \div LimbBits + 1) \div 2 ^ (i % LimbBits)) % 2

\* a mod 2^n
NatLowBits(a, n) == NatSub(a, NatShl(NatShr(a, n), n))

NatIsOdd(a) == Limb(a, 1) % 2 = 1

\* a mod 2^n = 0
NatLowZero(a, n) ==
  \A i \in 1..Len(a) :
    /\ i <= n \div LimbBits => a[i] = 0
    /\ i = n \div LimbBits + 1 => a[i] % 2 ^ (n % LimbBits) = 0

\* floor(a / 2^k) rounded to nearest, ties to even, where the exact value is
\* a / 2^k plus a positive amount below half a unit of a when sticky holds
NatShrRound(a, k, sticky) ==
  IF k = 0 THEN a
  ELSE LET q  == NatShr(a, k)
           up == /\ NatBit(a, k - 1) = 1
                 /\ (sticky \/ ~NatLowZero(a, k - 1) \/ NatIsOdd(q))
       IN  IF up THEN NatAdd(q, <<1>>) ELSE q

\* The quotient digit of r by b, for r < b * Base and b's top limb >= Base / 2:
\* the two top limbs of r by the top limb of b overestimate it by at most 2.
NatDigit(r, b) ==
  LET n    == Len(b)
      est  == (Limb(r, n + 1) * Base + Limb(r, n)) \div b[n]
      qhat == IF est >= Base THEN Base - 1 ELSE est
  IN  IF NatCmp(NatMulSmall(b, qhat), r) <= 0 THEN qhat
      ELSE IF NatCmp(NatMulSmall(b, qhat - 1), r) <= 0 THEN qhat - 1
      ELSE qhat - 2

\* One step of long division: the quotient so far (untrimmed, lowest limb
\* first) and the remainder so far, then the next lower limb of the dividend.
NatDivStep(hi, limb, b) ==
  LET r2 == NatTrim(<<limb>> \o hi.r)
      d  == NatDigit(r2, b)
  IN  [q |-> <<d>> \o hi.q, r |-> NatSub(r2, NatMulSmall(b, d))]

RECURSIVE NatDivModAt(_, _, _)
\* quotient (untrimmed) and remainder of (a with its limbs below i dropped) by b
NatDivModAt(a, b, i) ==
  IF i > Len(a) THEN [q |-> <<>>, r |-> <<>>]
  ELSE LET hi == NatDivModAt(a, b, i + 1)
       IN  IF hi.r = <<>> /\ a[i] = 0
             THEN [q |-> <<0>> \o hi.q, r |-> <<>>]
             ELSE NatDivStep(hi, a[i], b)

\* quotient and remainder of a by b, for b > 0: long division limb by limb,
\* both operands first scaled so that b's top limb is at least Base / 2
NatDivMod(a, b) ==
  LET s == LimbBits - SmallBitLen(b[Len(b)])
      x == NatDivModAt(NatMulSmall(a, 2 ^ s), NatMulSmall(b, 2 ^ s), 1)
  IN  [q |-> NatTrim(x.q), r |-> NatDivSmall(x.r, 2 ^ s).q]

RECURSIVE NatPow(_, _)
NatPow(k, n) == IF n = 0 THEN <<1>> ELSE NatMulSmall(NatPow(k, n - 1), k)

(***************************************************************************)
(* Python int: a sign and a magnitude                                      *)
(***************************************************************************)
PyInt(n) == [t |-> "int", neg |-> n < 0, mag |-> NatOfInt(IF n < 0 THEN -n ELSE n)]

IntOfNat(neg, mag) == [t |-> "int", neg |-> neg /\ mag # <<>>, mag |-> mag]

\* -1, 0 or 1 as the signed number (na, a) is below, equal to or above (nb, b)
SignedCmp(na, a, nb, b) ==
  IF a = <<>> /\ b = <<>> THEN 0
  ELSE IF na /\ a # <<>> /\ ~(nb /\ b # <<>>) THEN -1
  ELSE IF ~(na /\ a # <<>>) /\ nb /\ b # <<>> THEN 1
  ELSE IF na THEN NatCmp(b, a) ELSE NatCmp(a, b)

\* int < int
IntLt(i, j) == SignedCmp(i.neg, i.mag, j.neg, j.mag) < 0

(***************************************************************************)
(* Python float (IEEE-754 binary64): (-1)^neg * m * 2^e, with m = 0 or     *)
(* 2^52 <= m < 2^53.  Subnormals do not arise from the script's operands   *)
(* and are not modelled; a result of 2^1024 or more is out of range.       *)
(***************************************************************************)
MantBits == 53
MaxExp == 1024

Float(neg, m, e) == [t |-> "float", neg |-> neg, m |-> m, e |-> IF m = <<>> THEN 0 ELSE e]

\* The double nearest to n * 2^e (plus, when sticky, a positive amount below
\* one unit of n): round to nearest, ties to even.  With sticky, n must hold
\* at least MantBits + 2 bits.
RoundDouble(neg, n, e, sticky) ==
  LET k == NatBitLen(n) - MantBits
  IN  IF k <= 0
        THEN Float(neg, NatShl(n, -k), e + k)
        ELSE LET q == NatShrRound(n, k, sticky)
             IN  IF NatBitLen(q) > MantBits
                   THEN Float(neg, NatShr(q, 1), e + k + 1)
                   ELSE Float(neg, q, e + k)

\* the result does not fit a double (it would be inf)
FloatOutOfRange(x) == x.m # <<>> /\ x.e + MantBits > MaxExp

\* The double nearest to a / b * 2^e0, for b > 0: the quotient is taken to
\* MantBits + 2 bits or one more, and what is cut off is the sticky part.
RoundRatio(neg, a, b, e0) ==
  IF a = <<>> THEN Float(neg, <<>>, 0)
  ELSE LET s    == MantBits + 2 + NatBitLen(b) - NatBitLen(a)
           n    == IF s >= 0 THEN NatShl(a, s) ELSE NatShr(a, -s)
           lost == s < 0 /\ ~NatLowZero(a, -s)
           d    == NatDivMod(n, b)
       IN  RoundDouble(neg, d.q, e0 - s, lost \/ d.r # <<>>)

\* a float literal of the source, digits / 10^places, as the parser reads it
FloatLiteral(digits, places) ==
  RoundRatio(FALSE, NatOfInt(digits), NatPow(10, places), 0)

\* float(i) for an int (or bool) operand of a float operation
IntToFloat(i) == RoundDouble(i.neg, i.mag, 0, FALSE)

\* float * float
FloatMul(x, y) == RoundDouble(x.neg # y.neg, NatMul(x.m, y.m), x.e + y.e, FALSE)

\* float / float, for y # 0
FloatDiv(x, y) == RoundRatio(x.neg # y.neg, x.m, y.m, x.e - y.e)

\* int / int (true division), for j # 0: correctly rounded
IntTrueDiv(i, j) == RoundRatio(i.neg # j.neg, i.mag, j.mag, 0)

\* Mutant of FloatToInt: round(x), to the nearest integer, in place of int(x).
FloatToIntNearest(x) ==
  IntOfNat(x.neg, IF x.e >= 0 THEN NatShl(x.m, x.e) ELSE NatShrRound(x.m, -x.e, FALSE))

\* int(x): truncation toward zero
FloatToInt(x) ==
  IntOfNat(x.neg, IF x.e >= 0 THEN NatShl(x.m, x.e) ELSE NatShr(x.m, -x.e))

\* int < float, compared exactly as CPython does
IntLtFloat(i, x) ==
  IF x.e >= 0
    THEN SignedCmp(i.neg, i.mag, x.neg, NatShl(x.m, x.e)) < 0
    ELSE SignedCmp(i.neg, NatShl(i.mag, -x.e), x.neg, x.m) < 0

(***************************************************************************)
(* Text.  A line of output is a sequence of pieces; a piece is a string of *)
(* ASCII characters, or the name "U+xxxx" of one non-ASCII character.      *)
(***************************************************************************)
DigitChar(d) ==
  CASE d = 0 -> "0" [] d = 1 -> "1" [] d = 2 -> "2" [] d = 3 -> "3" [] d = 4 -> "4"
    [] d = 5 -> "5" [] d = 6 -> "6" [] d = 7 -> "7" [] d = 8 -> "8" [] d = 9 -> "9"

\* the three decimal digits of n < 1000
Digits3(n) == <<DigitChar(n \div 100), DigitChar((n \div 10) % 10), DigitChar(n % 10)>>

\* the decimal digits of n < 1000 without leading zeros
DigitsOf(n) ==
  IF n >= 100 THEN Digits3(n)
  ELSE IF n >= 10 THEN SubSeq(Digits3(n), 2, 3)
  ELSE SubSeq(Digits3(n), 3, 3)

RECURSIVE NatGroups(_)
\* n in base 1000, most significant group first; <<0>> for zero
NatGroups(n) ==
  LET d == NatDivSmall(n, 1000)
  IN  IF d.q = <<>> THEN <<d.r>> ELSE NatGroups(d.q) \o <<d.r>>

RECURSIVE JoinGroups(_, _, _)
JoinGroups(g, i, sep) ==
  IF i > Len(g) THEN <<>>
  ELSE (IF i = 1 THEN DigitsOf(g[1]) ELSE sep \o Digits3(g[i])) \o JoinGroups(g, i + 1, sep)

\* the decimal digits of n, the groups of three separated by sep
NatText(n, sep) == JoinGroups(NatGroups(n), 1, sep)

Sign(neg) == IF neg THEN <<"-">> ELSE <<>>

\* format(i, ',') for an int
IntComma(i) == Sign(i.neg) \o NatText(i.mag, <<",">>)

\* str(i) for an int
IntStr(i) == Sign(i.neg) \o NatText(i.mag, <<>>)

\* Mutant of FloatFixed: the decimals beyond the last place are cut off, not
\* rounded.
FloatFixedTruncated(x, places) ==
  LET n  == NatMul(x.m, NatPow(10, places))
      t  == IF x.e >= 0 THEN NatShl(n, x.e) ELSE NatShr(n, -x.e)
      d  == NatDivSmall(t, 10 ^ places)
  IN  Sign(x.neg) \o NatText(d.q, <<>>) \o <<".">> \o SubSeq(Digits3(d.r), 4 - places, 3)

\* format(x, '.<places>f') for places in 1..3: the exact value of the double
\* rounded to that many decimals, ties to even; the sign of a negative value
\* is kept even when it rounds to zero
FloatFixed(x, places) ==
  LET n  == NatMul(x.m, NatPow(10, places))
      t  == IF x.e >= 0 THEN NatShl(n, x.e) ELSE NatShrRound(n, -x.e, FALSE)
      d  == NatDivSmall(t, 10 ^ places)
  IN  Sign(x.neg) \o NatText(d.q, <<>>) \o <<".">> \o SubSeq(Digits3(d.r), 4 - places, 3)

\* the number of trailing zero bits of m # 0
TrailingZeros(m) ==
  CHOOSE k \in 0..NatBitLen(m) : NatBit(m, k) = 1 /\ NatLowZero(m, k)

\* the number of binary places of x: the least k >= 0 with x * 2^k an integer
BinaryPlaces(x) ==
  IF x.m = <<>> \/ x.e + TrailingZeros(x.m) >= 0 THEN 0 ELSE -(x.e + TrailingZeros(x.m))

\* The floats whose format(x, ',') is modelled: at most 3 binary places and
\* magnitude below 2^40, so that the exact decimal expansion has at most 15
\* significant digits and is the shortest string that reads back as x, which
\* is what repr and the ',' format print.
ShortFloat(x) == BinaryPlaces(x) <= 3 /\ (x.m = <<>> \/ x.e + MantBits <= 40)

\* format(x, ',') for a float with ShortFloat(x)
FloatComma(x) ==
  LET k  == BinaryPlaces(x)
      n  == IF x.e >= 0 THEN NatShl(x.m, x.e) ELSE NatShr(x.m, -x.e - k)
      ip == NatShr(n, k)
      f  == NatLowBits(n, k)
  IN  Sign(x.neg) \o NatText(ip, <<",">>) \o <<".">>
        \o (IF k = 0 THEN <<"0">>
            ELSE SubSeq(Digits3(NatDivSmall(NatMulSmall(f, 5 ^ k), 1000).r), 4 - k, 3))

(***************************************************************************)
(* The values json.load can return, as far as the script tells them apart  *)
(***************************************************************************)
PyBool(b) == [t |-> "bool", b |-> b]
PyStr(str) == [t |-> "str", s |-> str]
PyNone == [t |-> "NoneType"]
PyList == [t |-> "list"]
PyDict(items) == [t |-> "dict", items |-> items]

\* a bool where an int is expected: True is 1, False is 0
AsInt(v) == IF v.t = "bool" THEN PyInt(IF v.b THEN 1 ELSE 0) ELSE v

\* v is an int, a bool or a float
IsNumber(v) == v.t \in {"int", "bool", "float"}

\* the float operand of a float operation, for a number
ToFloat(v) == IF v.t = "float" THEN v ELSE IntToFloat(AsInt(v))

\* str(v), as an f-string field without a format prints it
Str(v) ==
  CASE v.t = "int"      -> IntStr(v)
    [] v.t = "bool"     -> IF v.b THEN <<"True">> ELSE <<"False">>
    [] v.t = "str"      -> <<v.s>>
    [] v.t = "NoneType" -> <<"None">>
    [] v.t = "list"     -> <<"[]">>

\* format(v, ',') for a number
Comma(v) == IF v.t = "float" THEN FloatComma(v) ELSE IntComma(AsInt(v))

\* a / b for numbers, b # 0
TrueDiv(a, b) ==
  IF a.t = "float" \/ b.t = "float"
    THEN FloatDiv(ToFloat(a), ToFloat(b))
    ELSE IntTrueDiv(AsInt(a), AsInt(b))

\* a * b for numbers of which at least one is a float
Mul(a, b) == FloatMul(ToFloat(a), ToFloat(b))

(***************************************************************************)
(* The script.  pc is the line of the statement to run next, 0 once the    *)
(* process has ended.  An uncaught exception ends the process with a       *)
(* traceback on stderr and exit status 1; stdout keeps what was printed.   *)
(***************************************************************************)
VARIABLES
  fs,                \* /tmp/devflow_tree.json as the run finds it
  pc,
  tree, total_size, total_files, estimated_tokens,
  stdout,            \* the lines printed so far
  status,            \* "running", "ok" (exit status 0) or "error" (exit status 1)
  error,             \* the uncaught exception, "" when none
  executed,          \* history: the lines of the statements run so far
  prev               \* history: the previous run of the script, if any

vars == <<fs, pc, tree, total_size, total_files, estimated_tokens,
          stdout, status, error, executed, prev>>

MAX_TOKENS == 2000000
MaxTokens == PyInt(MAX_TOKENS)

Unset == [t |-> "unset"]
NoPrev == [ran |-> FALSE]

Ok(v) == [exc |-> "", value |-> v]
Exc(name) == [exc |-> name, value |-> Unset]

\* Mutant of GetItem: v.get(key, 0), a default of 0 for an absent key.
GetItemOrZero(v, key) ==
  IF v.t # "dict" THEN Exc("TypeError")
  ELSE IF key \notin DOMAIN v.items THEN Ok(PyInt(0))
  ELSE Ok(v.items[key])

\* v[key] for a string key
GetItem(v, key) ==
  IF v.t # "dict" THEN Exc("TypeError")
  ELSE IF key \notin DOMAIN v.items THEN Exc("KeyError")
  ELSE Ok(v.items[key])

\* Mutant of EstimateTokens: the estimate is added to the one the previous run
\* left behind (a running total kept between runs).
EstimateAccumulated(size) ==
  IF ~IsNumber(size) THEN Exc("TypeError")
  ELSE IF FloatOutOfRange(ToFloat(size)) THEN Exc("OverflowError")
  ELSE LET est == FloatToInt(Mul(size, FloatLiteral(3, 1)))
       IN  IF prev.ran /\ prev.estimated_tokens # Unset /\ ~est.neg
                /\ ~prev.estimated_tokens.neg
             THEN Ok(IntOfNat(FALSE, NatAdd(est.mag, prev.estimated_tokens.mag)))
             ELSE Ok(est)

\* Mutant of EstimateTokens: the wrong variable, int(total_files * 0.3).
EstimateFromFiles(size) ==
  IF ~IsNumber(size) \/ ~IsNumber(total_files) THEN Exc("TypeError")
  ELSE IF FloatOutOfRange(ToFloat(size)) THEN Exc("OverflowError")
  ELSE Ok(FloatToInt(Mul(total_files, FloatLiteral(3, 1))))

\* int(size * 0.3)
EstimateTokens(size) ==
  IF ~IsNumber(size) THEN Exc("TypeError")
  ELSE IF FloatOutOfRange(ToFloat(size)) THEN Exc("OverflowError")
  ELSE Ok(FloatToInt(Mul(size, FloatLiteral(3, 1))))

\* Mutant of Cond28: <= in place of <.
Cond28Inclusive(est) ==
  \/ IntLtFloat(est, Mul(MaxTokens, FloatLiteral(5, 1)))
  \/ IntToFloat(est) = Mul(MaxTokens, FloatLiteral(5, 1))

\* Mutant of Cond38: the comparison the wrong way round.
Cond38Reversed(est) == IntLt(MaxTokens, est)

\* the conditions of the if / elif / elif chain
Cond28(est) == IntLtFloat(est, Mul(MaxTokens, FloatLiteral(5, 1)))
Cond34(est) == IntLtFloat(est, Mul(MaxTokens, FloatLiteral(8, 1)))
Cond38(est) == IntLt(est, MaxTokens)

RuleWidth == 50

\* what the print statement at line l prints
Text(l, files, size, est) ==
  CASE l = 18 -> <<"U+1F4CA", " Content Size Analysis">>
    [] l = 19 -> [i \in 1..RuleWidth |-> "="]
    [] l = 20 -> <<"Total Files: ">> \o Str(files)
    [] l = 21 -> <<"Total Size: ">> \o Comma(size) \o <<" bytes (">>
                   \o FloatFixed(TrueDiv(TrueDiv(size, PyInt(1024)), PyInt(1024)), 2)
                   \o <<" MB)">>
    [] l = 22 -> <<"Estimated Tokens: ">> \o IntComma(est)
    [] l = 23 -> <<"Max Context Window: ">> \o IntComma(MaxTokens)
    [] l = 24 -> <<>>
    [] l = 25 -> <<"Usage: ">>
                   \o FloatFixed(Mul(TrueDiv(est, MaxTokens), PyInt(100)), 1)
                   \o <<"% of context window">>
    [] l = 26 -> <<>>
    [] l = 29 -> <<"U+2705", " RECOMMENDATION: Use Context Stuffing">>
    [] l = 30 -> <<"   - Content easily fits in 2M window">>
    [] l = 31 -> <<"   - Simpler implementation">>
    [] l = 32 -> <<"   - Lower latency">>
    [] l = 33 -> <<"   - No vector DB needed">>
    [] l = 35 -> <<"U+26A0", "U+FE0F", "  RECOMMENDATION: Consider Context Stuffing with pruning">>
    [] l = 36 -> <<"   - Close to limit but manageable">>
    [] l = 37 -> <<"   - Can exclude tests, docs, or generated files">>
    [] l = 39 -> <<"U+26A0", "U+FE0F", "  RECOMMENDATION: Start with RAG">>
    [] l = 40 -> <<"   - Near the limit">>
    [] l = 41 -> <<"   - Better to use semantic search">>
    [] l = 43 -> <<"U+274C", " RECOMMENDATION: Full RAG Required">>
    [] l = 44 -> <<"   - Exceeds 2M token limit">>
    [] l = 45 -> <<"   - Must use LanceDB + embeddings">>

PrintLines == (18..26) \cup (29..33) \cup (35..37) \cup (39..41) \cup (43..45)

\* Mutant of After: the first elif written as a second if, so that line 34 is
\* tested after the first recommendation too.
AfterSecondIf(l) ==
  IF l \in {37, 41, 45} THEN 0
  ELSE IF l = 33 THEN 34
  ELSE IF l = 26 THEN 28
  ELSE l + 1

\* Mutant of After: the usage line (line 25) is left out.
AfterWithoutUsage(l) ==
  IF l \in {33, 37, 41, 45} THEN 0
  ELSE IF l = 26 THEN 28
  ELSE IF l = 24 THEN 26
  ELSE l + 1

\* the statement that follows the print at line l; 0 when the script ends there
After(l) ==
  IF l \in {33, 37, 41, 45} THEN 0
  ELSE IF l = 26 THEN 28
  ELSE l + 1

Goto(l) ==
  /\ pc' = l
  /\ executed' = Append(executed, pc)
  /\ status' = IF l = 0 THEN "ok" ELSE status
  /\ error' = error

Raise(exc) ==
  /\ pc' = 0
  /\ executed' = Append(executed, pc)
  /\ status' = "error"
  /\ error' = exc

\* lines 4-5: with open(...) as f: tree = json.load(f)
Load ==
  /\ pc = 4
  /\ IF fs.state = "missing" THEN Raise("FileNotFoundError") /\ tree' = tree
     ELSE IF fs.state = "garbage" THEN Raise("JSONDecodeError") /\ tree' = tree
     ELSE Goto(7) /\ tree' = fs.value
  /\ UNCHANGED <<fs, total_size, total_files, estimated_tokens, stdout, prev>>

\* line 7: total_size = tree['total_size']
GetSize ==
  /\ pc = 7
  /\ LET r == GetItem(tree, "total_size")
     IN  IF r.exc # "" THEN Raise(r.exc) /\ total_size' = total_size
         ELSE Goto(8) /\ total_size' = r.value
  /\ UNCHANGED <<fs, tree, total_files, estimated_tokens, stdout, prev>>

\* line 8: total_files = tree['total_files']
GetFiles ==
  /\ pc = 8
  /\ LET r == GetItem(tree, "total_files")
     IN  IF r.exc # "" THEN Raise(r.exc) /\ total_files' = total_files
         ELSE Goto(13) /\ total_files' = r.value
  /\ UNCHANGED <<fs, tree, total_size, estimated_tokens, stdout, prev>>

\* line 13: estimated_tokens = int(total_size * 0.3)
Estimate ==
  /\ pc = 13
  /\ LET r == EstimateTokens(total_size)
     IN  IF r.exc # "" THEN Raise(r.exc) /\ estimated_tokens' = estimated_tokens
         ELSE Goto(16) /\ estimated_tokens' = r.value
  /\ UNCHANGED <<fs, tree, total_size, total_files, stdout, prev>>

\* line 16: MAX_TOKENS = 2_000_000
SetMax ==
  /\ pc = 16
  /\ Goto(18)
  /\ UNCHANGED <<fs, tree, total_size, total_files, estimated_tokens, stdout, prev>>

\* lines 18-26, 29-33, 35-37, 39-41, 43-45: print(...)
PrintLine ==
  /\ pc \in PrintLines
  /\ stdout' = Append(stdout, Text(pc, total_files, total_size, estimated_tokens))
  /\ Goto(After(pc))
  /\ UNCHANGED <<fs, tree, total_size, total_files, estimated_tokens, prev>>

\* line 28: if estimated_tokens < MAX_TOKENS * 0.5:
Test28 ==
  /\ pc = 28
  /\ Goto(IF Cond28(estimated_tokens) THEN 29 ELSE 34)
  /\ UNCHANGED <<fs, tree, total_size, total_files, estimated_tokens, stdout, prev>>

\* line 34: elif estimated_tokens < MAX_TOKENS * 0.8:
Test34 ==
  /\ pc = 34
  /\ Goto(IF Cond34(estimated_tokens) THEN 35 ELSE 38)
  /\ UNCHANGED <<fs, tree, total_size, total_files, estimated_tokens, stdout, prev>>

\* lines 38 and 42: elif estimated_tokens < MAX_TOKENS: ... else:
Test38 ==
  /\ pc = 38
  /\ Goto(IF Cond38(estimated_tokens) THEN 39 ELSE 43)
  /\ UNCHANGED <<fs, tree, total_size, total_files, estimated_tokens, stdout, prev>>

Step == Load \/ GetSize \/ GetFiles \/ Estimate \/ SetMax \/ PrintLine \/ Test28 \/ Test34 \/ Test38

(***************************************************************************)
(* The files a run may find.  total_size ranges over small sizes, the      *)
(* sizes on both sides of each band edge, the least size at which the      *)
(* double product rounds up to the next integer, 2^1024 (too large for a   *)
(* float), negative sizes and values that are not ints.                    *)
(***************************************************************************)
MaxSmall == 12
Radius == 1

RECURSIVE Nat1000(_)
\* the natural number with the given base-1000 groups, most significant first
Nat1000(g) ==
  IF g = <<>> THEN <<>>
  ELSE NatAdd(NatMulSmall(Nat1000(SubSeq(g, 1, Len(g) - 1)), 1000), NatOfInt(g[Len(g)]))

BandEdges == {3333333, 5333333, 6666666}
PrecisionEdge == Nat1000(<<7, 505, 999, 378, 950, 833>>)

IntSizes ==
  {PyInt(n) : n \in 0..MaxSmall}
    \cup {PyInt(b + d) : b \in BandEdges, d \in 0..Radius}
    \cup {PyInt(10000000)}
    \cup {IntOfNat(FALSE, NatSub(PrecisionEdge, NatOfInt(10 * d))) : d \in 0..Radius}
    \cup {IntOfNat(FALSE, NatShl(<<1>>, MaxExp))}
    \cup {PyInt(-1), PyInt(-10)}

OtherSizes ==
  {FloatLiteral(105, 1), Float(TRUE, FloatLiteral(25, 1).m, FloatLiteral(25, 1).e),
   PyBool(TRUE), PyStr("big"), PyNone, PyList}

Sizes == IntSizes \cup OtherSizes

Files == {PyInt(100), PyInt(7), PyInt(-5), PyStr("many")}

Json(v) == [state |-> "json", value |-> v]

Tree(size, files) ==
  PyDict([k \in {"total_size", "total_files"} |-> IF k = "total_size" THEN size ELSE files])

Inputs ==
  {[state |-> "missing"], [state |-> "garbage"], Json(PyList), Json(PyDict(<<>>))}
    \cup {Json(Tree(s, f)) : s \in Sizes, f \in Files}
    \cup {Json(PyDict([k \in {"total_size"} |-> s])) : s \in Sizes}
    \cup {Json(PyDict([k \in {"total_files"} |-> f])) : f \in Files}

HasBoth(f) ==
  f.state = "json" /\ f.value.t = "dict"
    /\ DOMAIN f.value.items = {"total_size", "total_files"}

SizeOf(f) == f.value.items["total_size"]
FilesOf(f) == f.value.items["total_files"]

\* The files a second run may find after a run on f: the same file (the
\* script writes nothing), or the summary with one of its two fields rewritten.
Rewrites(f) ==
  {g \in Inputs :
     \/ g = f
     \/ /\ HasBoth(f) /\ HasBoth(g)
        /\ SizeOf(f) = SizeOf(g) \/ FilesOf(f) = FilesOf(g)}

Start(f) ==
  /\ fs = f
  /\ pc = 4
  /\ tree = Unset /\ total_size = Unset /\ total_files = Unset
  /\ estimated_tokens = Unset
  /\ stdout = <<>>
  /\ status = "running"
  /\ error = ""
  /\ executed = <<>>

Init == prev = NoPrev /\ \E f \in Inputs : Start(f)

\* the script is run again
Rerun ==
  /\ pc = 0
  /\ ~prev.ran
  /\ prev' = [ran |-> TRUE, fs |-> fs, stdout |-> stdout, status |-> status,
              error |-> error, estimated_tokens |-> estimated_tokens]
  /\ fs' \in Rewrites(fs)
  /\ pc' = 4
  /\ tree' = Unset /\ total_size' = Unset /\ total_files' = Unset
  /\ estimated_tokens' = Unset
  /\ stdout' = <<>>
  /\ status' = "running"
  /\ error' = ""
  /\ executed' = <<>>

Next == Step

Spec == Init /\ [][Next]_vars

NextTwice == Step \/ Rerun

SpecTwice == Init /\ [][NextTwice]_vars

(***************************************************************************)
(* What the claims speak of                                                *)
(***************************************************************************)
Done == pc = 0
Ran(l) == \E i \in 1..Len(executed) : executed[i] = l

NonNegInt(v) == v.t = "int" /\ ~v.neg

\* both fields are present and are non-negative integers
ValidInput(f) == HasBoth(f) /\ NonNegInt(SizeOf(f)) /\ NonNegInt(FilesOf(f))

\* the first line of each band's recommendation
Heads == {29, 35, 39, 43}

BandOf(h) ==
  CASE h = 29 -> "STUFFING"
    [] h = 35 -> "STUFFING_WITH_PRUNING"
    [] h = 39 -> "RAG_RECOMMENDED"
    [] h = 43 -> "RAG_REQUIRED"

Rank(h) == CASE h = 29 -> 1 [] h = 35 -> 2 [] h = 39 -> 3 [] h = 43 -> 4

LastOf(h) == IF h = 29 THEN 33 ELSE h + 2

Fixed(l) == Text(l, Unset, Unset, Unset)

\* the recommendation of the band with first line h, as printed
Block(h) == [i \in 1..(LastOf(h) - h + 1) |-> Fixed(h + i - 1)]

\* the first lines of recommendations that occur in out
HeadsIn(out) == {h \in Heads : \E i \in 1..Len(out) : out[i] = Fixed(h)}

\* the number of lines of out that open a recommendation
HeadCount(out) == Cardinality({i \in 1..Len(out) : \E h \in Heads : out[i] = Fixed(h)})

\* out is the nine summary lines followed by the recommendation of band h
ReportWith(out, h) == Len(out) > 9 /\ SubSeq(out, 10, Len(out)) = Block(h)

\* the band the thresholds 0.5, 0.8 and 1.0 of MAX_TOKENS give a count n
BandByThreshold(n) ==
  IF NatCmp(n, NatOfInt(MAX_TOKENS \div 2)) < 0 THEN 29
  ELSE IF NatCmp(n, NatOfInt((MAX_TOKENS \div 10) * 8)) < 0 THEN 35
  ELSE IF NatCmp(n, NatOfInt(MAX_TOKENS)) < 0 THEN 39
  ELSE 43

\* floor(3 * n / 10)
ThreeTenths(n) == NatDivSmall(NatMulSmall(n, 3), 10).q

SizeIs(n) == HasBoth(fs) /\ SizeOf(fs) = PyInt(n)

(***************************************************************************)
(* C1.  For every non-negative integer total_size s, estimated_tokens is   *)
(* floor(s * 0.3), the integer quotient of 3 * s by 10.                    *)
(* As stated it fails: the product is a double, and from                   *)
(* s = 7,505,999,378,950,833 on it can round up to the next integer.       *)
(***************************************************************************)
C1_EstimateIsThreeTenths ==
  (NonNegInt(total_size) /\ estimated_tokens # Unset)
    => estimated_tokens = IntOfNat(FALSE, ThreeTenths(total_size.mag))

\* C1 as amended: for every non-negative integer total_size s below
\* 7,505,999,378,950,833, once line 13 has run estimated_tokens is the
\* integer quotient of 3 * s by 10 (e.g. 10 gives 3, 3,333,333 gives 999,999).
C1_EstimateIsThreeTenthsBelowEdge ==
  (NonNegInt(total_size) /\ NatCmp(total_size.mag, PrecisionEdge) < 0 /\ Ran(13))
    => estimated_tokens = IntOfNat(FALSE, ThreeTenths(total_size.mag))

C1_Witness ==
  /\ Ran(13)
  /\ total_size = IntOfNat(FALSE, NatSub(PrecisionEdge, <<10>>))
  /\ estimated_tokens = IntOfNat(FALSE, ThreeTenths(total_size.mag))

(***************************************************************************)
(* C2.  Classification is total and unambiguous: a run that reaches the    *)
(* classification step with a non-negative estimated_tokens prints the     *)
(* recommendation of exactly one of the four bands.                        *)
(***************************************************************************)
C2_ExactlyOneBand ==
  (Done /\ Ran(28) /\ NonNegInt(estimated_tokens))
    => /\ HeadCount(stdout) = 1
       /\ Cardinality({h \in Heads : ReportWith(stdout, h)}) = 1

C2_Witness ==
  Done /\ Ran(28) /\ estimated_tokens = PyInt(MAX_TOKENS) /\ HeadsIn(stdout) = {43}

(***************************************************************************)
(* C3.  The lower bound of each band is inclusive: a non-negative          *)
(* estimated_tokens below 1,000,000 gives STUFFING, from 1,000,000 and     *)
(* below 1,600,000 STUFFING_WITH_PRUNING, from 1,600,000 and below         *)
(* 2,000,000 RAG_RECOMMENDED, and from 2,000,000 on RAG_REQUIRED.          *)
(***************************************************************************)
C3_BandBoundaries ==
  (Done /\ Ran(28) /\ NonNegInt(estimated_tokens))
    => /\ HeadsIn(stdout) = {BandByThreshold(estimated_tokens.mag)}
       /\ estimated_tokens = PyInt(999999) => HeadsIn(stdout) = {29}
       /\ estimated_tokens = PyInt(1000000) => HeadsIn(stdout) = {35}
       /\ estimated_tokens = PyInt(1600000) => HeadsIn(stdout) = {39}
       /\ estimated_tokens = PyInt(2000000) => HeadsIn(stdout) = {43}
       /\ estimated_tokens = PyInt(3000000) => HeadsIn(stdout) = {43}

C3_Witness ==
  Done /\ estimated_tokens = PyInt(1000000) /\ BandOf(35) = "STUFFING_WITH_PRUNING"
    /\ ReportWith(stdout, 35)

(***************************************************************************)
(* C4.  Negative or non-integer input never yields a report: when          *)
(* total_size or total_files is negative or not an integer, the run ends   *)
(* in an error (non-zero exit) and prints nothing.                         *)
(* The script validates nothing, so the statement fails on the code.       *)
(***************************************************************************)
C4_MalformedInputFails ==
  (HasBoth(fs) /\ ~ValidInput(fs))
    => stdout = <<>> /\ (Done => status = "error")

(***************************************************************************)
(* C5.  When the summary is unavailable (no file, or a file that cannot be *)
(* read as a summary) or a required field is absent, the run aborts with   *)
(* a non-zero exit status before any line of the report is printed.        *)
(***************************************************************************)
C5_MissingInputAborts ==
  ~HasBoth(fs)
    => /\ stdout = <<>>
       /\ pc \in {4, 7, 8, 0}
       /\ Done => status = "error" /\ error # ""

C5_Witness ==
  /\ Done /\ status = "error" /\ error = "KeyError" /\ stdout = <<>>
  /\ fs.state = "json" /\ fs.value.t = "dict"
  /\ DOMAIN fs.value.items = {"total_size"}

(***************************************************************************)
(* C6.  For total_size = 3,333,333 and total_files = 100 the run computes  *)
(* estimated_tokens = 999,999, prints the context-stuffing recommendation  *)
(* (band STUFFING) and prints the usage as "50.0%".                        *)
(***************************************************************************)
C6_Scenario ==
  (Done /\ fs = Json(Tree(PyInt(3333333), PyInt(100))))
    => /\ status = "ok"
       /\ estimated_tokens = PyInt(999999)
       /\ ReportWith(stdout, 29)
       /\ stdout[8] = <<"Usage: ", "5", "0", ".", "0", "% of context window">>

C6_Witness ==
  /\ Done /\ fs = Json(Tree(PyInt(3333333), PyInt(100)))
  /\ stdout[10] = <<"U+2705", " RECOMMENDATION: Use Context Stuffing">>

Statements == {4, 7, 8, 13, 16, 28, 34, 38} \cup PrintLines

StrictlyIncreasing(q) == \A i \in 1..(Len(q) - 1) : q[i] < q[i + 1]

FixedOrder ==
  /\ StrictlyIncreasing(executed)
  /\ ~Done => pc \in Statements
  /\ Done =>
       /\ status = "ok"
       /\ SubSeq(executed, 1, 15) = <<4, 7, 8, 13, 16, 18, 19, 20, 21, 22, 23, 24, 25, 26, 28>>
       /\ Len(stdout) > 9
       /\ stdout[3][1] = "Total Files: "
       /\ stdout[4][1] = "Total Size: "
       /\ stdout[5][1] = "Estimated Tokens: "
       /\ stdout[6][1] = "Max Context Window: "
       /\ stdout[8][1] = "Usage: "
       /\ HeadCount(stdout) = 1
       /\ \E h \in Heads : ReportWith(stdout, h)

Classified(f, out) == ValidInput(f) /\ HeadsIn(out) # {}

TheHead(out) == CHOOSE h \in Heads : h \in HeadsIn(out)

C9_BandMonotone ==
  /\ (Done /\ prev.ran /\ Classified(fs, stdout) /\ Classified(prev.fs, prev.stdout)
        /\ NatCmp(SizeOf(prev.fs).mag, SizeOf(fs).mag) <= 0)
       => Rank(TheHead(prev.stdout)) <= Rank(TheHead(stdout))
  /\ (Done /\ ValidInput(fs))
       => /\ SizeIs(3333333) => HeadsIn(stdout) = {29}
          /\ SizeIs(3333334) => HeadsIn(stdout) = {35}
          /\ SizeIs(5333333) => HeadsIn(stdout) = {35}
          /\ SizeIs(5333334) => HeadsIn(stdout) = {39}
          /\ SizeIs(6666666) => HeadsIn(stdout) = {39}
          /\ SizeIs(6666667) => HeadsIn(stdout) = {43}

C9_Witness ==
  /\ Done /\ prev.ran /\ ValidInput(fs) /\ ValidInput(prev.fs)
  /\ SizeOf(prev.fs) = PyInt(3333333) /\ SizeIs(3333334)
  /\ HeadsIn(prev.stdout) = {29} /\ HeadsIn(stdout) = {35}

(***************************************************************************)
(* C10.  total_files has no influence on the decision: two runs with the   *)
(* same total_size and different total_files compute the same              *)
(* estimated_tokens, print the same usage and the same band; their outputs *)
(* differ in the "Total Files" line only.                                  *)
(***************************************************************************)
C10_FilesDoNotDecide ==
  (Done /\ prev.ran /\ HasBoth(fs) /\ HasBoth(prev.fs)
     /\ SizeOf(fs) = SizeOf(prev.fs) /\ FilesOf(fs) # FilesOf(prev.fs))
    => /\ status = prev.status /\ error = prev.error
       /\ estimated_tokens = prev.estimated_tokens
       /\ Len(stdout) = Len(prev.stdout)
       /\ \A i \in 1..Len(stdout) : i # 3 => stdout[i] = prev.stdout[i]
       /\ stdout # <<>> => stdout[3] # prev.stdout[3]

C10_Witness ==
  /\ Done /\ prev.ran /\ ValidInput(fs) /\ ValidInput(prev.fs)
  /\ SizeOf(fs) = SizeOf(prev.fs) /\ FilesOf(fs) # FilesOf(prev.fs)
  /\ Len(stdout) > 9 /\ stdout[3] # prev.stdout[3] /\ stdout[8] = prev.stdout[8]

=============================================================================
